---- MODULE Spec2Model ----
(***************************************************************************)
(* Model of lib/aggregate-expression.js: shorthand aggregate expressions   *)
(* of the format 'fn[:field]'.                                             *)
(*                                                                         *)
(* JavaScript strings that the code splits, concatenates and compares      *)
(* (function tokens, field names, shorthands) are sequences of one         *)
(* character strings, so that split(':') is computed and not assumed.      *)
(* Labels are only ever appended to a prefix and are TLA+ strings.         *)
(* A value that may be undefined is a sequence of length 0 or 1.           *)
(***************************************************************************)
EXTENDS Integers, Sequences, FiniteSets

VARIABLES
    fields,     \* the field collection handed to parse / of
    op,         \* the operation that ran last
    e,          \* the expression in hand (Undefined when there is none)
    eBy,        \* the operation that produced e
    eStr,       \* the string handed to the last parse
    thrown,     \* the last parse threw its validation error
    checked,    \* internals.valids(fields) as computed inside the last parse
    s,          \* the result of the last toString
    sOf,        \* the expression the last toString serialised
    sBy,        \* the operation that had produced that expression
    fns,        \* the fns argument of the last of()
    exprs,      \* the array returned by the last of()
    lbl,        \* the result of the last label() / fieldLabel()
    builders,   \* the Aggregation builders, by reference
    nApply,     \* the number of apply calls so far
    ret,        \* the reference returned by the last apply
    applied,    \* the arguments of the last apply
    mapped      \* the value the installed bucket mapper returned last

vars == <<fields, op, e, eBy, eStr, thrown, checked, s, sOf, sBy, fns, exprs,
          lbl, builders, nApply, ret, applied, mapped>>

----------------------------------------------------------------------------
(* Bounds and input sets *)

MaxFields == 2
MaxApply == 2

COUNT == <<"c", "o", "u", "n", "t">>
SUM == <<"s", "u", "m">>
AVG == <<"a", "v", "g">>
MAX == <<"m", "a", "x">>
MIN == <<"m", "i", "n">>

Colon == <<":">>
Undefined == <<>>
TypeError == <<"TypeError">>
LabelTypeError == "TypeError"

AllFns == <<COUNT, SUM, AVG, MAX, MIN>>
FnSet == {COUNT, SUM, AVG, MAX, MIN}
MED == <<"m", "e", "d">>
FnTokens == FnSet \cup {MED}

NameA == <<"a">>
NameAB == <<"a", ":", "b">>
NameB == <<"b">>

\* Field objects { name, label, dataType }; every one has its own label.
FieldUniverse ==
    { [name |-> NameA,  label |-> "Amount",  dataType |-> "number"],
      [name |-> NameA,  label |-> "Created", dataType |-> "date"],
      [name |-> NameA,  label |-> "Status",  dataType |-> "string"],
      [name |-> NameAB, label |-> "Net",     dataType |-> "number"],
      [name |-> NameAB, label |-> "Closed",  dataType |-> "date"],
      [name |-> NameAB, label |-> "Owner",   dataType |-> "string"] }

FieldCollections == UNION { [1..n -> FieldUniverse] : n \in 0..MaxFields }

\* Strings offered to parse: bare tokens, token:name, and malformed ones.
CandidateNames == {NameA, NameAB, NameB, <<>>}
Candidates ==
    FnTokens \cup { t \o Colon \o n : t \in FnTokens, n \in CandidateNames }
             \cup { <<>> }

\* fns arguments of of(): omitted, or an array of distinct function tokens.
FnArrays == { f \in UNION { [1..n -> FnSet] : n \in 0..5 } :
                \A i, j \in DOMAIN f : i # j => f[i] # f[j] }
FnsArgs == {Undefined} \cup { <<f>> : f \in FnArrays }

BuilderRefs == {1, 2}
Mappers == {"omitted", "pair"}
BucketKeys == {"X", "Y"}
DocCounts == {7}
MetricValues == {42, 5}

----------------------------------------------------------------------------
(* Helpers (lodash / String.prototype) *)

Range(sq) == { sq[i] : i \in DOMAIN sq }

RECURSIVE Split(_)
\* String.prototype.split(':')
Split(str) ==
    IF \E i \in DOMAIN str : str[i] = ":"
    THEN LET k == CHOOSE i \in DOMAIN str :
                      str[i] = ":" /\ \A j \in 1..(i - 1) : str[j] # ":"
         IN <<SubSeq(str, 1, k - 1)>> \o Split(SubSeq(str, k + 1, Len(str)))
    ELSE <<str>>

\* _.find(fields, { name: n }) where n is possibly undefined
Find(flds, n) ==
    IF n = Undefined \/ ~ \E i \in DOMAIN flds : flds[i].name = n[1]
    THEN Undefined
    ELSE LET k == CHOOSE i \in DOMAIN flds :
                      flds[i].name = n[1] /\ \A j \in 1..(i - 1) : flds[j].name # n[1]
         IN <<flds[k]>>

\* _.difference(arr, excl)
Difference(arr, excl) == SelectSeq(arr, LAMBDA x : x \notin Range(excl))

RECURSIVE Uniq(_)
Uniq(arr) ==
    IF arr = <<>> THEN <<>>
    ELSE LET init == SubSeq(arr, 1, Len(arr) - 1)
             last == arr[Len(arr)]
         IN IF last \in Range(init) THEN Uniq(init) ELSE Append(Uniq(init), last)

\* _.intersection(arr, other)
Intersection(arr, other) == Uniq(SelectSeq(arr, LAMBDA x : x \in Range(other)))

----------------------------------------------------------------------------
(* The expression model *)

\* new AggregateExpression(fn, field)
AggregateExpression(fn, field) == [fn |-> fn, field |-> field]

RECURSIVE ValidsReduceAnyType(_, _)
\* slip: the dataType test before the sum/avg pushes is lost
ValidsReduceAnyType(acc, fs) ==
    IF fs = <<>> THEN acc
    ELSE LET f == Head(fs)
         IN ValidsReduceAnyType(
                acc \o << MAX \o Colon \o f.name, MIN \o Colon \o f.name,
                          SUM \o Colon \o f.name, AVG \o Colon \o f.name >>,
                Tail(fs))

RECURSIVE ValidsReduce(_, _)
ValidsReduce(acc, fs) ==
    IF fs = <<>> THEN acc
    ELSE LET f == Head(fs)
             acc1 == Append(Append(acc, MAX \o Colon \o f.name), MIN \o Colon \o f.name)
             acc2 == IF f.dataType = "number"
                     THEN Append(Append(acc1, SUM \o Colon \o f.name), AVG \o Colon \o f.name)
                     ELSE acc1
         IN ValidsReduce(acc2, Tail(fs))

\* internals.valids(fields)
valids(flds) ==
    ValidsReduce(<<COUNT>>,
        SelectSeq(flds, LAMBDA f : f.dataType = "number" \/ f.dataType = "date"))

\* AggregateExpression.prototype.toString
toString(x) ==
    IF x.fn = COUNT THEN COUNT
    ELSE IF x.field = Undefined THEN TypeError
    ELSE x.fn \o Colon \o x.field[1].name

\* slip: the avg prefix abbreviated
labelAvgPrefix(x) ==
    IF x.fn = COUNT THEN "Total Count"
    ELSE IF x.fn \in {SUM, AVG, MAX, MIN} /\ x.field = Undefined THEN LabelTypeError
    ELSE IF x.fn = SUM THEN "Total " \o x.field[1].label
    ELSE IF x.fn = AVG THEN "Avg " \o x.field[1].label
    ELSE IF x.fn = MAX THEN "Max " \o x.field[1].label
    ELSE IF x.fn = MIN THEN "Min " \o x.field[1].label
    ELSE "Unknown"

\* AggregateExpression.prototype.label
label(x) ==
    IF x.fn = COUNT THEN "Total Count"
    ELSE IF x.fn \in {SUM, AVG, MAX, MIN} /\ x.field = Undefined THEN LabelTypeError
    ELSE IF x.fn = SUM THEN "Total " \o x.field[1].label
    ELSE IF x.fn = AVG THEN "Average " \o x.field[1].label
    ELSE IF x.fn = MAX THEN "Max " \o x.field[1].label
    ELSE IF x.fn = MIN THEN "Min " \o x.field[1].label
    ELSE "Unknown"

\* AggregateExpression.prototype.fieldLabel
fieldLabel(x) ==
    IF x.field = Undefined THEN Undefined ELSE <<x.field[1].label>>

\* slip: only the function token is validated
parseTokenOnly(flds, expr) ==
    LET parts == Split(expr)
        second == IF Len(parts) >= 2 THEN <<parts[2]>> ELSE Undefined
    IN IF parts[1] \notin FnSet
       THEN [ok |-> FALSE, value |-> Undefined]
       ELSE [ok |-> TRUE,
             value |-> <<AggregateExpression(parts[1], Find(flds, second))>>]

\* AggregateExpression.parse: [ok |-> FALSE] stands for the thrown error
parse(flds, expr) ==
    IF expr \notin Range(valids(flds))
    THEN [ok |-> FALSE, value |-> Undefined]
    ELSE LET parts == Split(expr)
             second == IF Len(parts) >= 2 THEN <<parts[2]>> ELSE Undefined
         IN [ok |-> TRUE,
             value |-> <<AggregateExpression(parts[1], Find(flds, second))>>]

RECURSIVE OfReduce(_, _, _)
OfReduce(acc, fs, fnList) ==
    IF fs = <<>> THEN acc
    ELSE OfReduce(acc \o [i \in DOMAIN fnList |->
                             AggregateExpression(fnList[i], <<Head(fs)>>)],
                  Tail(fs), fnList)

\* slip: the date expressions concatenated ahead of the number expressions
ofDatesFirst(flds, fnsArg) ==
    LET fnsv == IF fnsArg = Undefined THEN AllFns ELSE fnsArg[1]
        numberFns == Difference(fnsv, <<COUNT>>)
        dateFns == Difference(fnsv, <<COUNT, SUM, AVG>>)
        cnt == Intersection(fnsv, <<COUNT>>)
        countExprs == [i \in DOMAIN cnt |-> AggregateExpression(COUNT, Undefined)]
        numberExprs == OfReduce(<<>>,
                           SelectSeq(flds, LAMBDA f : f.dataType = "number"), numberFns)
        dateExprs == OfReduce(<<>>,
                         SelectSeq(flds, LAMBDA f : f.dataType = "date"), dateFns)
    IN countExprs \o dateExprs \o numberExprs

\* slip: sum and avg not taken out of the date functions
ofDateSums(flds, fnsArg) ==
    LET fnsv == IF fnsArg = Undefined THEN AllFns ELSE fnsArg[1]
        numberFns == Difference(fnsv, <<COUNT>>)
        dateFns == Difference(fnsv, <<COUNT>>)
        cnt == Intersection(fnsv, <<COUNT>>)
        countExprs == [i \in DOMAIN cnt |-> AggregateExpression(COUNT, Undefined)]
        numberExprs == OfReduce(<<>>,
                           SelectSeq(flds, LAMBDA f : f.dataType = "number"), numberFns)
        dateExprs == OfReduce(<<>>,
                         SelectSeq(flds, LAMBDA f : f.dataType = "date"), dateFns)
    IN countExprs \o numberExprs \o dateExprs

\* AggregateExpression.of
of(flds, fnsArg) ==
    LET fnsv == IF fnsArg = Undefined THEN AllFns ELSE fnsArg[1]
        numberFns == Difference(fnsv, <<COUNT>>)
        dateFns == Difference(fnsv, <<COUNT, SUM, AVG>>)
        cnt == Intersection(fnsv, <<COUNT>>)
        countExprs == [i \in DOMAIN cnt |-> AggregateExpression(COUNT, Undefined)]
        numberExprs == OfReduce(<<>>,
                           SelectSeq(flds, LAMBDA f : f.dataType = "number"), numberFns)
        dateExprs == OfReduce(<<>>,
                         SelectSeq(flds, LAMBDA f : f.dataType = "date"), dateFns)
    IN countExprs \o numberExprs \o dateExprs

----------------------------------------------------------------------------
(* State machine *)

FreshBuilder == [aggs |-> <<>>, configs |-> <<>>, mapper |-> Undefined]

NoApply == [ref |-> 0, expr |-> Undefined, mapper |-> "omitted"]

Init ==
    /\ fields \in FieldCollections
    /\ op = "init"
    /\ e = Undefined /\ eBy = "none" /\ eStr = <<>>
    /\ thrown = FALSE /\ checked = <<>>
    /\ s = <<>> /\ sOf = Undefined /\ sBy = "none"
    /\ fns = Undefined /\ exprs = <<>>
    /\ lbl = Undefined
    /\ builders = [b \in BuilderRefs |-> FreshBuilder]
    /\ nApply = 0
    /\ ret = 0 /\ applied = NoApply /\ mapped = Undefined

\* A call chain starts from the state after construction.  The static calls
\* (factories, constructor, of, parse) depend on their arguments alone and leave
\* nothing of an earlier chain behind, so starting every chain here reaches
\* the same states as starting it anywhere.
Idle == op = "init"

\* a freshly produced expression
Produce(x, by) ==
    /\ Idle
    /\ e' = <<x>> /\ eBy' = by
    /\ eStr' = <<>> /\ thrown' = FALSE /\ checked' = <<>>
    /\ s' = <<>> /\ sOf' = Undefined /\ sBy' = "none"
    /\ fns' = Undefined /\ exprs' = <<>>
    /\ lbl' = Undefined
    /\ op' = by
    /\ UNCHANGED <<fields, builders, nApply, ret, applied, mapped>>

Count == Produce(AggregateExpression(COUNT, Undefined), "count")

Sum == \E i \in DOMAIN fields : Produce(AggregateExpression(SUM, <<fields[i]>>), "sum")

Avg == \E i \in DOMAIN fields : Produce(AggregateExpression(AVG, <<fields[i]>>), "avg")

Max == \E i \in DOMAIN fields : Produce(AggregateExpression(MAX, <<fields[i]>>), "max")

Min == \E i \in DOMAIN fields : Produce(AggregateExpression(MIN, <<fields[i]>>), "min")

New ==
    \E fn \in FnTokens, f \in {Undefined} \cup { <<fields[i]>> : i \in DOMAIN fields } :
        Produce(AggregateExpression(fn, f), "new")

Of ==
    \E a \in FnsArgs :
        /\ Idle
        /\ fns' = a
        /\ exprs' = of(fields, a)
        /\ op' = "of"
        /\ e' = Undefined /\ eBy' = "none" /\ eStr' = <<>>
        /\ thrown' = FALSE /\ checked' = <<>>
        /\ s' = <<>> /\ sOf' = Undefined /\ sBy' = "none"
        /\ lbl' = Undefined
        /\ UNCHANGED <<fields, builders, nApply, ret, applied, mapped>>

\* the caller takes one element of the array of() returned
Select ==
    /\ op = "of"
    /\ \E i \in DOMAIN exprs :
        /\ e' = <<exprs[i]>> /\ eBy' = "of"
        /\ op' = "select"
        /\ fns' = Undefined /\ exprs' = <<>>
        /\ UNCHANGED <<fields, eStr, thrown, checked, s, sOf, sBy, lbl,
                       builders, nApply, ret, applied, mapped>>

ToString ==
    /\ e # Undefined
    /\ s' = toString(e[1]) /\ sOf' = e /\ sBy' = eBy
    /\ op' = "toString"
    /\ fns' = Undefined /\ exprs' = <<>> /\ lbl' = Undefined
    /\ UNCHANGED <<fields, e, eBy, eStr, thrown, checked, builders, nApply, ret, applied, mapped>>

DoParse(str, keep) ==
    LET r == parse(fields, str)
    IN /\ checked' = valids(fields)
       /\ thrown' = ~ r.ok
       /\ e' = r.value
       /\ eBy' = "parse"
       /\ eStr' = str
       /\ op' = "parse"
       /\ fns' = Undefined /\ exprs' = <<>> /\ lbl' = Undefined
       /\ IF keep THEN UNCHANGED <<s, sOf, sBy>>
                  ELSE s' = <<>> /\ sOf' = Undefined /\ sBy' = "none"
       /\ UNCHANGED <<fields, builders, nApply, ret, applied, mapped>>

\* parse of a string the caller wrote
Parse == Idle /\ \E str \in Candidates : DoParse(str, FALSE)

\* parse of the string the last toString returned
ParseBack ==
    /\ op = "toString"
    /\ s # TypeError
    /\ DoParse(s, TRUE)

Label ==
    /\ e # Undefined
    /\ lbl' = <<label(e[1])>>
    /\ op' = "label"
    /\ UNCHANGED <<fields, e, eBy, eStr, thrown, checked, s, sOf, sBy, fns, exprs,
                   builders, nApply, ret, applied, mapped>>

FieldLabel ==
    /\ e # Undefined
    /\ lbl' = fieldLabel(e[1])
    /\ op' = "fieldLabel"
    /\ UNCHANGED <<fields, e, eBy, eStr, thrown, checked, s, sOf, sBy, fns, exprs,
                   builders, nApply, ret, applied, mapped>>

----------------------------------------------------------------------------
(* apply and the Aggregation builder it drives *)

\* Expressions handed to apply: count() and the factories over aggregable fields.
ApplyFields == { f \in FieldUniverse : f.dataType = "number" }
ApplyExprs ==
    {AggregateExpression(COUNT, Undefined)} \cup
    { AggregateExpression(fn, <<f>>) : fn \in {SUM, AVG, MAX, MIN}, f \in ApplyFields }

\* Aggregation.prototype.aggregation(name, spec): registers a named aggregation
BuilderAggregation(b, name, spec) ==
    [b EXCEPT !.aggs = Append(@, [name |-> name, spec |-> spec])]

\* Aggregation.prototype.configure(options)
BuilderConfigure(b, options) == [b EXCEPT !.configs = Append(@, options)]

\* Aggregation.prototype.mapper(fn): installs the result mapper
BuilderMapper(b, m) == [b EXCEPT !.mapper = <<m>>]

\* the mapper argument of apply, called with (label, value)
CallMapper(m, l, v) ==
    IF m = "pair" THEN <<l, v>> ELSE [label |-> l, value |-> v]

\* the arrow functions apply hands to Aggregation.bucketMapper
MetricClosure(aggId, m) == [reads |-> "metric", aggId |-> aggId, mapper |-> m]
CountClosure(m) == [reads |-> "doc_count", aggId |-> <<>>, mapper |-> m]

\* Aggregation.bucketMapper(f) applied to one bucket: f(bucket, bucket's metrics)
BucketMapper(f, bucket) ==
    IF f.reads = "metric"
    THEN CallMapper(f.mapper, bucket.key, bucket.metrics[f.aggId])
    ELSE CallMapper(f.mapper, bucket.key, bucket.doc_count)

\* slip: the order keyed by the field name instead of the aggregation name
applyToOrderByField(b, x, m) ==
    LET aggId == toString(x)
    IN IF x.fn # COUNT
       THEN BuilderMapper(
                BuilderConfigure(
                    BuilderAggregation(b, aggId, [fn |-> x.fn, field |-> x.field[1].name]),
                    [order |-> [key |-> x.field[1].name, dir |-> "desc"]]),
                MetricClosure(aggId, m))
       ELSE BuilderMapper(b, CountClosure(m))

\* slip: the count branch taken for no expression, so count registers too
applyToCountRegisters(b, x, m) ==
    LET aggId == toString(x)
        field == IF x.field = Undefined THEN Undefined ELSE x.field[1].name
    IN BuilderMapper(
           BuilderConfigure(
               BuilderAggregation(b, aggId, [fn |-> x.fn, field |-> field]),
               [order |-> [key |-> aggId, dir |-> "desc"]]),
           IF x.fn # COUNT THEN MetricClosure(aggId, m) ELSE CountClosure(m))

\* AggregateExpression.prototype.apply, on the builder state b
applyTo(b, x, m) ==
    LET aggId == toString(x)
    IN IF x.fn # COUNT
       THEN BuilderMapper(
                BuilderConfigure(
                    BuilderAggregation(b, aggId, [fn |-> x.fn, field |-> x.field[1].name]),
                    [order |-> [key |-> aggId, dir |-> "desc"]]),
                MetricClosure(aggId, m))
       ELSE BuilderMapper(b, CountClosure(m))

Apply ==
    /\ nApply < MaxApply
    /\ \E r \in BuilderRefs, x \in ApplyExprs, m \in Mappers :
        /\ builders' = [builders EXCEPT ![r] = applyTo(@, x, m)]
        /\ ret' = r
        /\ applied' = [ref |-> r, expr |-> <<x>>, mapper |-> m]
    /\ nApply' = nApply + 1
    /\ mapped' = Undefined
    /\ op' = "apply"
    /\ UNCHANGED <<fields, e, eBy, eStr, thrown, checked, s, sOf, sBy, fns, exprs, lbl>>

\* the backend hands one result bucket to the mapper installed on a builder
RunMapper ==
    /\ \E r \in BuilderRefs :
        /\ builders[r].mapper # Undefined
        /\ LET names == { builders[r].aggs[i].name : i \in DOMAIN builders[r].aggs }
           IN \E k \in BucketKeys, d \in DocCounts, mv \in [names -> MetricValues] :
                LET bucket == [key |-> k, doc_count |-> d, metrics |-> mv]
                IN mapped' = <<[ref |-> r, bucket |-> bucket,
                                out |-> BucketMapper(builders[r].mapper[1], bucket)]>>
    /\ op' = "runMapper"
    /\ UNCHANGED <<fields, e, eBy, eStr, thrown, checked, s, sOf, sBy, fns, exprs, lbl,
                   builders, nApply, ret, applied>>

Next ==
    \/ Count
    \/ Sum
    \/ Avg
    \/ Max
    \/ Min
    \/ New
    \/ Of
    \/ Select
    \/ ToString
    \/ Parse
    \/ ParseBack
    \/ Label
    \/ FieldLabel

Spec == Init /\ [][Next]_vars

\* apply takes its expression as an argument and reads no field collection
InitApply == Init /\ fields = <<>>

NextApply ==
    \/ Apply
    \/ RunMapper

SpecApply == InitApply /\ [][NextApply]_vars

----------------------------------------------------------------------------
(* Properties *)

HasPrefix(str, p) == Len(str) >= Len(p) /\ SubSeq(str, 1, Len(p)) = p
Rest(str, p) == SubSeq(str, Len(p) + 1, Len(str))
FieldNames == { fields[i].name : i \in DOMAIN fields }
HasField(n, dt) == \E i \in DOMAIN fields : fields[i].name = n /\ fields[i].dataType = dt
Factories == {"count", "sum", "avg", "max", "min"}

\* the data-model invariant of an expression
WellTyped(x) ==
    /\ (x.field = Undefined) <=> (x.fn = COUNT)
    /\ x.fn \in {SUM, AVG} => x.field # Undefined /\ x.field[1].dataType = "number"
    /\ x.fn \in {MAX, MIN} =>
          x.field # Undefined /\ x.field[1].dataType \in {"number", "date"}

\* C1: round-trip law.  For an expression produced from the fields of F by a
\* factory or by of(F, fns), parse(F, e.toString()) succeeds and returns an
\* expression with the same fn and a field of the same name (no field for
\* count).  Stated here for the well-typed expressions only, which is the
\* weakest reading of the law.
C1_RoundTrip ==
    (op = "parse" /\ sOf # Undefined /\ eStr = s
        /\ sBy \in Factories \cup {"of"} /\ WellTyped(sOf[1]))
    => /\ ~ thrown
       /\ e # Undefined
       /\ e[1].fn = sOf[1].fn
       /\ IF sOf[1].fn = COUNT
          THEN e[1].field = Undefined
          ELSE e[1].field # Undefined /\ e[1].field[1].name = sOf[1].field[1].name

\* C2 (as amended): parse throws exactly when the string is not one of the
\* valid shorthands computed in that call, and then returns no expression; it
\* throws for an unknown function token, for an unknown field name, and for a
\* sum/avg shorthand whose name is carried by a 'date' field and by no
\* 'number' field.
C2_ParseValidates ==
    op = "parse" =>
        /\ thrown <=> eStr \notin Range(checked)
        /\ thrown => e = Undefined
        /\ (\A fn \in FnSet : eStr # fn /\ ~ HasPrefix(eStr, fn \o Colon)) => thrown
        /\ \A fn \in {SUM, AVG, MAX, MIN} :
              (HasPrefix(eStr, fn \o Colon) /\ Rest(eStr, fn \o Colon) \notin FieldNames)
                  => thrown
        /\ \A fn \in {SUM, AVG} :
              (/\ HasPrefix(eStr, fn \o Colon)
               /\ HasField(Rest(eStr, fn \o Colon), "date")
               /\ ~ HasField(Rest(eStr, fn \o Colon), "number"))
                  => thrown

\* C2 as originally stated: parse throws for every sum/avg shorthand that
\* names a field whose dataType is 'date'.
C2_SumOfDateFails ==
    op = "parse" =>
        \A fn \in {SUM, AVG} :
            (HasPrefix(eStr, fn \o Colon) /\ HasField(Rest(eStr, fn \o Colon), "date"))
                => thrown

C2_Witness ==
    /\ op = "parse" /\ thrown /\ e = Undefined
    /\ eStr = SUM \o Colon \o NameA
    /\ HasField(NameA, "date")

BlockSize(f) ==
    IF f.dataType = "number" THEN 4 ELSE IF f.dataType = "date" THEN 2 ELSE 0

RECURSIVE SizeBefore(_)
SizeBefore(i) == IF i <= 1 THEN 0 ELSE SizeBefore(i - 1) + BlockSize(fields[i - 1])

\* C3: validShorthands(fields) is "count", then per field in input order
\* max:<name>, min:<name> for 'number' and 'date' fields, followed by
\* sum:<name>, avg:<name> for 'number' fields; other fields add nothing.
C3_ValidsExact ==
    op = "parse" =>
        /\ Len(checked) = 1 + SizeBefore(Len(fields) + 1)
        /\ checked[1] = <<"c", "o", "u", "n", "t">>
        /\ \A i \in DOMAIN fields :
              LET o == 1 + SizeBefore(i)
                  f == fields[i]
              IN /\ f.dataType \in {"number", "date"} =>
                       /\ checked[o + 1] = <<"m", "a", "x", ":">> \o f.name
                       /\ checked[o + 2] = <<"m", "i", "n", ":">> \o f.name
                 /\ f.dataType = "number" =>
                       /\ checked[o + 3] = <<"s", "u", "m", ":">> \o f.name
                       /\ checked[o + 4] = <<"a", "v", "g", ":">> \o f.name

C3_Witness ==
    /\ op = "parse"
    /\ Len(fields) = 2
    /\ fields[1].dataType = "date" /\ fields[2].dataType = "number"
    /\ Len(checked) = 7

\* the fns array of() worked with
FnsUsed == IF fns = Undefined THEN AllFns ELSE fns[1]
Without(arr, excl) == SelectSeq(arr, LAMBDA x : x \notin excl)
NumberFields == SelectSeq(fields, LAMBDA f : f.dataType = "number")
DateFields == SelectSeq(fields, LAMBDA f : f.dataType = "date")
CountLen == IF COUNT \in Range(FnsUsed) THEN 1 ELSE 0

\* exprs is: the count expression (when allowed), one block per number field
\* with the functions nFns, then one block per date field with dFns
Layout(nFns, dFns) ==
    LET nStart == CountLen
        dStart == CountLen + Len(NumberFields) * Len(nFns)
    IN /\ Len(exprs) = dStart + Len(DateFields) * Len(dFns)
       /\ CountLen = 1 => exprs[1] = [fn |-> COUNT, field |-> Undefined]
       /\ \A k \in DOMAIN NumberFields : \A j \in DOMAIN nFns :
             exprs[nStart + (k - 1) * Len(nFns) + j]
                 = [fn |-> nFns[j], field |-> <<NumberFields[k]>>]
       /\ \A k \in DOMAIN DateFields : \A j \in DOMAIN dFns :
             exprs[dStart + (k - 1) * Len(dFns) + j]
                 = [fn |-> dFns[j], field |-> <<DateFields[k]>>]

\* C4 as originally stated: inside each block the functions appear in the
\* canonical order sum, avg, max, min restricted to the allowed ones,
\* whatever the order in which fns lists them.
C4_CanonicalOrder ==
    op = "of" =>
        Layout(SelectSeq(<<SUM, AVG, MAX, MIN>>, LAMBDA x : x \in Range(FnsUsed)),
               SelectSeq(<<MAX, MIN>>, LAMBDA x : x \in Range(FnsUsed)))

\* C4 (as amended): of(fields, fns) returns the count expression first (when
\* count is allowed), then one block per 'number' field in input order, then
\* one block per 'date' field in input order; inside each block the functions
\* appear in the order in which fns lists them (count left out, and sum and
\* avg left out for a date field), which is sum, avg, max, min when fns is
\* omitted.
C4_FnsOrder ==
    op = "of" =>
        /\ Layout(Without(FnsUsed, {COUNT}), Without(FnsUsed, {COUNT, SUM, AVG}))
        /\ fns = Undefined =>
              Layout(<<SUM, AVG, MAX, MIN>>, <<MAX, MIN>>)

C4_Witness ==
    /\ op = "of"
    /\ fns = << <<MAX, COUNT, SUM>> >>
    /\ Len(fields) = 2
    /\ fields[1].dataType = "date" /\ fields[2].dataType = "number"
    /\ Len(exprs) = 4
    /\ exprs[2].fn = MAX /\ exprs[3].fn = SUM /\ exprs[4].fn = MAX

\* C5: an expression returned by a successful parse satisfies the data-model
\* invariant: no field exactly when fn is count, a 'number' field for
\* sum/avg, a 'number' or 'date' field for max/min; also when several fields
\* share a name.
C5_ParsedWellTyped ==
    (op = "parse" /\ ~ thrown) => (e # Undefined /\ WellTyped(e[1]))

\* C10: for every string s of validShorthands(F), parse(F, s) succeeds,
\* attaches a field unless s is "count", and parse(F, s).toString() is s;
\* also for field names that contain ':'.
C10_LeftInverse ==
    /\ (op = "parse" /\ eStr \in Range(checked)) =>
          /\ ~ thrown
          /\ e # Undefined
          /\ eStr # COUNT => e[1].field # Undefined
    /\ (op = "toString" /\ sBy = "parse") => s = eStr

\* C8: label() is "Total Count" for count, "Total "/"Average "/"Max "/"Min "
\* followed by the field's label for sum/avg/max/min, "Unknown" for any other
\* fn; fieldLabel() is the field's label when a field is attached and absent
\* for the count expression.
C8_Labels ==
    /\ op = "label" =>
          LET x == e[1]
          IN /\ x.fn = COUNT => lbl = <<"Total Count">>
             /\ x.fn \notin FnSet => lbl = <<"Unknown">>
             /\ x.field # Undefined =>
                   /\ x.fn = SUM => lbl = <<"Total " \o x.field[1].label>>
                   /\ x.fn = AVG => lbl = <<"Average " \o x.field[1].label>>
                   /\ x.fn = MAX => lbl = <<"Max " \o x.field[1].label>>
                   /\ x.fn = MIN => lbl = <<"Min " \o x.field[1].label>>
    /\ op = "fieldLabel" =>
          /\ e[1].field # Undefined => lbl = <<e[1].field[1].label>>
          /\ e[1] = [fn |-> COUNT, field |-> Undefined] => lbl = Undefined

C8_Witness ==
    /\ op = "label"
    /\ e[1].fn = AVG
    /\ e[1].field # Undefined /\ e[1].field[1].label = "Net"
    /\ lbl = <<"Average Net">>

\* the function token of a shorthand: what precedes its first ':'
Token(str) == Split(str)[1]

\* C9: the shorthands of the expressions of(F, fns) returns are exactly the
\* strings of validShorthands(F) whose function token is in fns (all of them
\* when fns is omitted); a field that is neither 'number' nor 'date' yields
\* no expression and no shorthand.
C9_OfAgreesWithValids ==
    op = "of" =>
        /\ { toString(exprs[i]) : i \in DOMAIN exprs }
              = { str \in Range(valids(fields)) : Token(str) \in Range(FnsUsed) }
        /\ fns = Undefined =>
              { toString(exprs[i]) : i \in DOMAIN exprs } = Range(valids(fields))
        /\ \A i \in DOMAIN exprs :
              exprs[i].fn # COUNT => exprs[i].field[1].dataType \in {"number", "date"}
        /\ \A str \in Range(valids(fields)) :
              str # COUNT =>
                  \E n \in FieldNames :
                      /\ HasField(n, "number") \/ HasField(n, "date")
                      /\ Rest(str, Token(str) \o Colon) = n

C9_Witness ==
    /\ op = "of"
    /\ fns = << <<AVG, MIN>> >>
    /\ Len(fields) = 2
    /\ fields[1].dataType = "string" /\ fields[2].dataType = "number"
    /\ Len(exprs) = 2

\* the shorthand of the expression handed to the last apply
AppliedId == applied.expr[1].fn \o Colon \o applied.expr[1].field[1].name

\* C6: apply on a non-count expression registers exactly one aggregation,
\* named by the expression's shorthand, with spec {fn: {field: field.name}},
\* configures descending order keyed by that name, and installs a bucket
\* mapper returning mapper(bucket.key, metric stored under that name), which
\* is {label: key, value: metric} when mapper is omitted.
C6_ApplyNonCount ==
    /\ [][(op' = "apply" /\ applied'.expr[1].fn # COUNT) =>
            LET r == applied'.ref
                x == applied'.expr[1]
                id == x.fn \o Colon \o x.field[1].name
            IN /\ builders'[r].aggs =
                     Append(builders[r].aggs,
                            [name |-> id, spec |-> [fn |-> x.fn, field |-> x.field[1].name]])
               /\ builders'[r].configs =
                     Append(builders[r].configs, [order |-> [key |-> id, dir |-> "desc"]])
               /\ builders'[r].mapper # Undefined]_vars
    /\ [](( /\ op = "runMapper"
            /\ mapped[1].ref = applied.ref
            /\ applied.expr[1].fn # COUNT) =>
            LET b == mapped[1].bucket
            IN /\ applied.mapper = "omitted" =>
                     mapped[1].out = [label |-> b.key, value |-> b.metrics[AppliedId]]
               /\ applied.mapper = "pair" =>
                     mapped[1].out = <<b.key, b.metrics[AppliedId]>>)

C6_Witness ==
    /\ op = "runMapper"
    /\ mapped[1].ref = applied.ref
    /\ applied.expr[1].fn = SUM
    /\ applied.mapper = "omitted"
    /\ Len(builders[applied.ref].aggs) = 2
    /\ builders[applied.ref].aggs[1].name # AppliedId
    /\ mapped[1].bucket.metrics[builders[applied.ref].aggs[1].name] = 5
    /\ mapped[1].out = [label |-> "X", value |-> 42]

\* C7: apply on the count expression leaves the registered aggregations and
\* the ordering configuration of the builder unchanged and installs a bucket
\* mapper returning mapper(bucket.key, bucket document count), which is
\* {label: key, value: count} when mapper is omitted; every apply returns the
\* builder it was given.
C7_ApplyCount ==
    /\ [][(op' = "apply" /\ applied'.expr[1].fn = COUNT) =>
            LET r == applied'.ref
            IN /\ builders'[r].aggs = builders[r].aggs
               /\ builders'[r].configs = builders[r].configs
               /\ builders'[r].mapper # Undefined]_vars
    /\ [][op' = "apply" =>
            /\ ret' = applied'.ref
            /\ \A r \in BuilderRefs \ {ret'} : builders'[r] = builders[r]]_vars
    /\ [](( /\ op = "runMapper"
            /\ mapped[1].ref = applied.ref
            /\ applied.expr[1].fn = COUNT) =>
            LET b == mapped[1].bucket
            IN /\ applied.mapper = "omitted" =>
                     mapped[1].out = [label |-> b.key, value |-> b.doc_count]
               /\ applied.mapper = "pair" =>
                     mapped[1].out = <<b.key, b.doc_count>>)

C7_Witness ==
    /\ op = "runMapper"
    /\ mapped[1].ref = applied.ref
    /\ applied.expr[1].fn = COUNT
    /\ applied.mapper = "omitted"
    /\ Len(builders[applied.ref].aggs) = 1
    /\ mapped[1].out = [label |-> "X", value |-> 7]

====
